---- MODULE Spec2Model ----
(***************************************************************************)
(* A model of the Monkey lexer (lexer/lexer.go, token/token.go).           *)
(*                                                                         *)
(* A byte is a number in 0..255 and a Go string is a sequence of bytes.    *)
(* A Lexer is a record of the four fields of the struct, plus `panic`,     *)
(* which records that the Go runtime aborted an index or slice expression  *)
(* (the bounds checks Go performs on input[i] and input[lo:hi]).           *)
(***************************************************************************)
EXTENDS Integers, Sequences, FiniteSets, TLC

VARIABLES
    lexer,  \* lexer[i]: the Lexer struct of instance i
    pc,     \* pc[i]: "idle" (no such instance), "new" (inside New, before readChar), "ready"
    hist,   \* hist[i]: one record per NextToken call made on instance i, in call order
    arg,    \* arg[i]: the string the caller passed to New for instance i
    kwTable \* the package-level variable token.keywords

vars == <<lexer, pc, hist, arg, kwTable>>

LexerIds == {1, 2}

----------------------------------------------------------------------------
(* Bounds of the model.                                                    *)

\* longest input drawn from the core alphabet
MaxLen == 3
\* longest input drawn from the full byte sample
ShortLen == 2
\* NextToken calls allowed beyond the length of the input
ExtraCalls == 3
\* longest base input of the whitespace-variant pairs
WsLen == 3

----------------------------------------------------------------------------
(* token/token.go                                                          *)

ILLEGAL == "ILLEGAL"
EOF == "EOF"
IDENT == "IDENT"
INT == "INT"
ASSIGN == "="
PLUS == "+"
MINUS == "-"
BANG == "!"
ASTERISK == "*"
SLASH == "/"
LT == "<"
GT == ">"
COMMA == ","
SEMICOLON == ";"
LPAREN == "("
RPAREN == ")"
LBRACE == "{"
RBRACE == "}"
FUNCTION == "FUNCTION"
\* token.LET (LET is a reserved word of TLA+)
LET_KW == "LET"

\* the initial value of the keyword table: "fn" and "let" as byte strings
keywords == (<<102, 110>> :> FUNCTION) @@ (<<108, 101, 116>> :> LET_KW)

LookupIdent_Prefix(ident) ==
    IF \E k \in DOMAIN kwTable : Len(ident) >= Len(k) /\ SubSeq(ident, 1, Len(k)) = k
    THEN kwTable[CHOOSE k \in DOMAIN kwTable :
                     Len(ident) >= Len(k) /\ SubSeq(ident, 1, Len(k)) = k]
    ELSE IDENT

LookupIdent_NoKeywords(ident) == IDENT

LookupIdent(ident) ==
    IF ident \in DOMAIN kwTable THEN kwTable[ident] ELSE IDENT

\* the zero value of token.Token (var tok token.Token)
Token(type, literal) == [Type |-> type, Literal |-> literal]

----------------------------------------------------------------------------
(* lexer/lexer.go                                                          *)

\* Go's string(ch) for a byte ch: the UTF-8 encoding of the code point ch
byteToString(ch) ==
    IF ch < 128 THEN <<ch>> ELSE <<192 + (ch \div 64), 128 + (ch % 64)>>

newToken(tokenType, ch) == Token(tokenType, byteToString(ch))

isLetter_NoUnderscore(ch) ==
    (97 <= ch /\ ch <= 122) \/ (65 <= ch /\ ch <= 90)

isLetter_WithDigits(ch) ==
    (97 <= ch /\ ch <= 122) \/ (65 <= ch /\ ch <= 90) \/ ch = 95 \/ (48 <= ch /\ ch <= 57)

isLetter(ch) ==
    (97 <= ch /\ ch <= 122) \/ (65 <= ch /\ ch <= 90) \/ ch = 95

isDigit_Alnum(ch) == (48 <= ch /\ ch <= 57) \/ (97 <= ch /\ ch <= 122)

isDigit(ch) == 48 <= ch /\ ch <= 57

\* input[i] with Go's bounds check
indexOK(s, i) == 0 <= i /\ i < Len(s)

\* input[lo:hi] with Go's bounds check
sliceOK(s, lo, hi) == 0 <= lo /\ lo <= hi /\ hi <= Len(s)
slice(s, lo, hi) == SubSeq(s, lo + 1, hi)

readChar_OffByOne(l) ==
    IF l.panic THEN l
    ELSE IF l.readPosition > Len(l.input)
    THEN [l EXCEPT !.ch = 0, !.position = l.readPosition,
                   !.readPosition = l.readPosition + 1]
    ELSE IF indexOK(l.input, l.readPosition)
    THEN [l EXCEPT !.ch = l.input[l.readPosition + 1],
                   !.position = l.readPosition,
                   !.readPosition = l.readPosition + 1]
    ELSE [l EXCEPT !.panic = TRUE]

\* position is taken after readPosition has been incremented
readChar_PositionAfter(l) ==
    IF l.panic THEN l
    ELSE IF l.readPosition >= Len(l.input)
    THEN [l EXCEPT !.ch = 0, !.position = l.readPosition + 1,
                   !.readPosition = l.readPosition + 1]
    ELSE IF indexOK(l.input, l.readPosition)
    THEN [l EXCEPT !.ch = l.input[l.readPosition + 1],
                   !.position = l.readPosition + 1,
                   !.readPosition = l.readPosition + 1]
    ELSE [l EXCEPT !.panic = TRUE]

\* at the end of the input the sentinel is set but the cursor is not moved
readChar_StickAtEnd(l) ==
    IF l.panic THEN l
    ELSE IF l.readPosition >= Len(l.input)
    THEN [l EXCEPT !.ch = 0]
    ELSE IF indexOK(l.input, l.readPosition)
    THEN [l EXCEPT !.ch = l.input[l.readPosition + 1],
                   !.position = l.readPosition,
                   !.readPosition = l.readPosition + 1]
    ELSE [l EXCEPT !.panic = TRUE]

readChar(l) ==
    IF l.panic THEN l
    ELSE IF l.readPosition >= Len(l.input)
    THEN [l EXCEPT !.ch = 0, !.position = l.readPosition,
                   !.readPosition = l.readPosition + 1]
    ELSE IF indexOK(l.input, l.readPosition)
    THEN [l EXCEPT !.ch = l.input[l.readPosition + 1],
                   !.position = l.readPosition,
                   !.readPosition = l.readPosition + 1]
    ELSE [l EXCEPT !.panic = TRUE]

\* &Lexer{input: input}
zeroLexer(input) ==
    [input |-> input, position |-> 0, readPosition |-> 0, ch |-> 0, panic |-> FALSE]

\* the priming readChar left out
New_NotPrimed(input) == zeroLexer(input)

New(input) == readChar(zeroLexer(input))

isWhitespace_NoCR(ch) == ch = 32 \/ ch = 9 \/ ch = 10

isWhitespace(ch) == ch = 32 \/ ch = 9 \/ ch = 10 \/ ch = 13

RECURSIVE skipWhitespace(_)
skipWhitespace(l) ==
    IF ~l.panic /\ isWhitespace(l.ch) THEN skipWhitespace(readChar(l)) ELSE l

RECURSIVE whileLetter(_)
whileLetter(l) ==
    IF ~l.panic /\ isLetter(l.ch) THEN whileLetter(readChar(l)) ELSE l

RECURSIVE whileDigit(_)
whileDigit(l) ==
    IF ~l.panic /\ isDigit(l.ch) THEN whileDigit(readChar(l)) ELSE l

\* the result of a method that returns a string: the lexer after it, and the string
readResult(position, m) ==
    IF ~m.panic /\ sliceOK(m.input, position, m.position)
    THEN [lex |-> m, str |-> slice(m.input, position, m.position)]
    ELSE [lex |-> [m EXCEPT !.panic = TRUE], str |-> <<>>]

readIdentifier(l) == readResult(l.position, whileLetter(l))

readNumber(l) == readResult(l.position, whileDigit(l))

\* the cases of the switch on l.ch; "" when no case matches (default)
symbolType_NoSlash(ch) ==
    CASE ch = 61 -> ASSIGN
      [] ch = 43 -> PLUS
      [] ch = 45 -> MINUS
      [] ch = 33 -> BANG
      [] ch = 42 -> ASTERISK
      [] ch = 60 -> LT
      [] ch = 62 -> GT
      [] ch = 59 -> SEMICOLON
      [] ch = 44 -> COMMA
      [] ch = 40 -> LPAREN
      [] ch = 41 -> RPAREN
      [] ch = 123 -> LBRACE
      [] ch = 125 -> RBRACE
      [] OTHER -> ""

symbolType(ch) ==
    CASE ch = 61 -> ASSIGN
      [] ch = 43 -> PLUS
      [] ch = 45 -> MINUS
      [] ch = 33 -> BANG
      [] ch = 47 -> SLASH
      [] ch = 42 -> ASTERISK
      [] ch = 60 -> LT
      [] ch = 62 -> GT
      [] ch = 59 -> SEMICOLON
      [] ch = 44 -> COMMA
      [] ch = 40 -> LPAREN
      [] ch = 41 -> RPAREN
      [] ch = 123 -> LBRACE
      [] ch = 125 -> RBRACE
      [] OTHER -> ""

\* the last two statements of NextToken: l.readChar(); return tok
advance_Stay(l, tok) == [lex |-> l, tok |-> tok]

\* one character too many consumed after a single-character token
advance_Twice(l, tok) == [lex |-> readChar(readChar(l)), tok |-> tok]

advance(l, tok) == [lex |-> readChar(l), tok |-> tok]

\* NextToken on lexer l: the lexer after the call and the token returned
NextToken(l0) ==
    LET l == skipWhitespace(l0) IN
    IF l.panic THEN [lex |-> l, tok |-> Token("", <<>>)]
    ELSE IF symbolType(l.ch) # "" THEN advance(l, newToken(symbolType(l.ch), l.ch))
    ELSE IF isLetter(l.ch)
    THEN LET r == readIdentifier(l) IN
         [lex |-> r.lex, tok |-> Token(LookupIdent(r.str), r.str)]
    ELSE IF isDigit(l.ch)
    THEN LET r == readNumber(l) IN
         [lex |-> r.lex, tok |-> Token(INT, r.str)]
    ELSE IF l.ch = 0 THEN advance(l, Token(EOF, <<>>))
    ELSE advance(l, newToken(ILLEGAL, l.ch))

----------------------------------------------------------------------------
(* Inputs.                                                                 *)

BoundedSeq(S, n) == UNION {[1..k -> S] : k \in 0..n}

\* l e t f n _ 1 9 space newline = ; NUL @ 0xFF
CoreBytes == {108, 101, 116, 102, 110, 95, 49, 57, 32, 10, 61, 59, 0, 64, 255}

SymbolBytes == {61, 43, 45, 33, 47, 42, 60, 62, 59, 44, 40, 41, 123, 125}
WhitespaceBytes == {32, 9, 10, 13}
LetterBytes == (97..122) \cup (65..90) \cup {95}
DigitBytes == 48..57

\* every symbol and whitespace byte, the ends of the letter and digit ranges and
\* their neighbours, NUL, and bytes that belong to no class
SampleBytes ==
    SymbolBytes \cup WhitespaceBytes
    \cup {97, 122, 65, 90, 95, 108} \cup {48, 57}
    \cup {0} \cup {1, 11, 35, 58, 64, 91, 96, 127, 128, 191, 255}

\* "lett", "1a", "a1", "let five = 5;", "fn(x, y) { x + y; }"
Examples ==
    { <<108, 101, 116, 116>>,
      <<49, 97>>,
      <<97, 49>>,
      <<108, 101, 116, 32, 102, 105, 118, 101, 32, 61, 32, 53, 59>>,
      <<102, 110, 40, 120, 44, 32, 121, 41, 32, 123, 32, 120, 32, 43, 32, 121,
        59, 32, 125>> }

Inputs == BoundedSeq(CoreBytes, MaxLen) \cup BoundedSeq(SampleBytes, ShortLen) \cup Examples

----------------------------------------------------------------------------
(* The state machine.                                                      *)

Idle == zeroLexer(<<>>)

Init ==
    /\ \E input \in Inputs :
         lexer = [i \in LexerIds |-> IF i = 1 THEN zeroLexer(input) ELSE Idle]
    /\ pc = [i \in LexerIds |-> IF i = 1 THEN "new" ELSE "idle"]
    /\ hist = [i \in LexerIds |-> <<>>]
    /\ arg = [i \in LexerIds |-> lexer[i].input]
    /\ kwTable = keywords

\* New(input): l.readChar() on the fresh struct
CallNew(i) ==
    /\ pc[i] = "new"
    /\ lexer' = [lexer EXCEPT ![i] = New(lexer[i].input)]
    /\ pc' = [pc EXCEPT ![i] = "ready"]
    /\ UNCHANGED <<hist, arg, kwTable>>

\* the cursor kept in one place for all instances instead of in each Lexer
CallNextToken_SharedCursor(i) ==
    /\ pc[i] = "ready"
    /\ ~lexer[i].panic
    /\ Len(hist[i]) < Len(lexer[i].input) + ExtraCalls
    /\ LET r == NextToken(lexer[i]) IN
         /\ lexer' = [j \in LexerIds |->
                         IF j = i THEN r.lex
                         ELSE IF pc[j] = "ready"
                         THEN [lexer[j] EXCEPT !.position = r.lex.position,
                                               !.readPosition = r.lex.readPosition,
                                               !.ch = r.lex.ch]
                         ELSE lexer[j]]
         /\ hist' = [hist EXCEPT ![i] =
                        IF r.lex.panic THEN @
                        ELSE Append(@, [tok |-> r.tok,
                                        from |-> lexer[i].position,
                                        to |-> r.lex.position])]
    /\ UNCHANGED <<pc, arg, kwTable>>

\* one call l.NextToken() on instance i; a call the runtime aborts returns nothing
CallNextToken(i) ==
    /\ pc[i] = "ready"
    /\ ~lexer[i].panic
    /\ Len(hist[i]) < Len(lexer[i].input) + ExtraCalls
    /\ LET r == NextToken(lexer[i]) IN
         /\ lexer' = [lexer EXCEPT ![i] = r.lex]
         /\ hist' = [hist EXCEPT ![i] =
                        IF r.lex.panic THEN @
                        ELSE Append(@, [tok |-> r.tok,
                                        from |-> lexer[i].position,
                                        to |-> r.lex.position])]
    /\ UNCHANGED <<pc, arg, kwTable>>

Next == \E i \in LexerIds : CallNew(i) \/ CallNextToken(i)

Spec == Init /\ [][Next]_vars

----------------------------------------------------------------------------
(* Two lexers whose inputs differ by whitespace inserted between lexemes.  *)

\* l 1 space = NUL @
WsBaseBytes == {108, 49, 32, 61, 0, 64}

\* s with byte w inserted before offset p
insertAt(s, p, w) == SubSeq(s, 1, p) \o <<w>> \o SubSeq(s, p + 1, Len(s))

\* offset p of s lies strictly inside a run of letters or a run of digits
insideLexeme(s, p) ==
    /\ 0 < p
    /\ p < Len(s)
    /\ \/ s[p] \in LetterBytes /\ s[p + 1] \in LetterBytes
       \/ s[p] \in DigitBytes /\ s[p + 1] \in DigitBytes

InitWS ==
    /\ \E u \in BoundedSeq(WsBaseBytes, WsLen) :
         \E p \in 0..Len(u) :
           \E w \in WhitespaceBytes :
             /\ ~insideLexeme(u, p)
             /\ lexer = [i \in LexerIds |->
                            IF i = 1 THEN zeroLexer(u) ELSE zeroLexer(insertAt(u, p, w))]
    /\ pc = [i \in LexerIds |-> "new"]
    /\ hist = [i \in LexerIds |-> <<>>]
    /\ arg = [i \in LexerIds |-> lexer[i].input]
    /\ kwTable = keywords

SpecWS == InitWS /\ [][Next]_vars

----------------------------------------------------------------------------
(* Two independent lexers, over the same or different inputs, whose calls  *)
(* interleave in any order.                                                *)

\* longest input of the two interleaved lexers
PairLen == 2

\* l 1 space NUL
PairBytes == {108, 49, 32, 0}

InitPair ==
    /\ \E u \in BoundedSeq(PairBytes, PairLen) :
         \E v \in BoundedSeq(PairBytes, PairLen) :
           lexer = [i \in LexerIds |-> IF i = 1 THEN zeroLexer(u) ELSE zeroLexer(v)]
    /\ pc = [i \in LexerIds |-> "new"]
    /\ hist = [i \in LexerIds |-> <<>>]
    /\ arg = [i \in LexerIds |-> lexer[i].input]
    /\ kwTable = keywords

SpecPair == InitPair /\ [][Next]_vars

----------------------------------------------------------------------------
(* Vocabulary of the properties, defined on the input text alone.          *)

Input(i) == lexer[i].input
Calls(i) == Len(hist[i])
Tok(i, k) == hist[i][k].tok
Toks(i) == [k \in 1..Calls(i) |-> Tok(i, k)]
Built(i) == pc[i] = "ready"

Max(a, b) == IF a >= b THEN a ELSE b

\* the 0-based offset of the first byte of s at or after p that is not in S
\* (Len(s) or more when there is none)
RunEnd(s, p, S) ==
    LET ends == {q \in p..Max(p, Len(s)) : q >= Len(s) \/ s[q + 1] \notin S}
    IN CHOOSE q \in ends : \A r \in ends : q <= r

\* the byte at 0-based offset p of s, the sentinel 0 past its end
ByteAt(s, p) == IF p < Len(s) THEN s[p + 1] ELSE 0

\* the offset call k of lexer i classifies: the first non-whitespace at or after the cursor
Start(i, k) == RunEnd(Input(i), hist[i][k].from, WhitespaceBytes)
StartByte(i, k) == ByteAt(Input(i), Start(i, k))

IsPrefix(s, t) == Len(s) <= Len(t) /\ s = SubSeq(t, 1, Len(s))

\* bytes that belong to no class: not whitespace, symbol, letter, digit or sentinel
OtherBytes ==
    (0..255) \ (WhitespaceBytes \cup SymbolBytes \cup LetterBytes \cup DigitBytes \cup {0})

\* the number of lexemes of s: the non-whitespace, non-NUL bytes that do not
\* continue a run of letters or a run of digits
LexemeCount(s) ==
    Cardinality({p \in 1..Len(s) :
        /\ s[p] \notin WhitespaceBytes \cup {0}
        /\ ~(p > 1 /\ s[p] \in LetterBytes /\ s[p - 1] \in LetterBytes)
        /\ ~(p > 1 /\ s[p] \in DigitBytes /\ s[p - 1] \in DigitBytes)})

\* the tokens of the first n NextToken calls on lexer l
RECURSIVE tokensFrom(_, _)
tokensFrom(l, n) ==
    IF n = 0 THEN <<>>
    ELSE LET r == NextToken(l) IN <<r.tok>> \o tokensFrom(r.lex, n - 1)

\* lexer l after n NextToken calls
RECURSIVE lexerAfter(_, _)
lexerAfter(l, n) == IF n = 0 THEN l ELSE lexerAfter(NextToken(l).lex, n - 1)

----------------------------------------------------------------------------
(* C1. Idempotent EOF: once a NextToken call returns a token of Type EOF,  *)
(* every later call on the same lexer returns Type EOF with empty Literal. *)
C1_IdempotentEOF ==
    \A i \in LexerIds : \A k \in 1..Calls(i) :
        (k > 1 /\ Tok(i, k - 1).Type = EOF) => Tok(i, k) = Token(EOF, <<>>)

(* C2. The Literal of every returned token is the exact substring of the   *)
(* input the call consumed after skipping whitespace, and is empty for EOF;*)
(* an ILLEGAL token's Literal is exactly the one unclassified byte.        *)
C2_LiteralIsSourceText ==
    \A i \in LexerIds : \A k \in 1..Calls(i) :
        IF Tok(i, k).Type = EOF
        THEN Tok(i, k).Literal = <<>>
        ELSE /\ Tok(i, k).Literal = SubSeq(Input(i), Start(i, k) + 1, hist[i][k].to)
             /\ Tok(i, k).Type = ILLEGAL => Tok(i, k).Literal = <<StartByte(i, k)>>

(* C3. On an input with n lexemes the first EOF token is returned by call  *)
(* n+1 exactly: no call up to n returns EOF, and call n+1 does.            *)
C3_EofAfterAllLexemes ==
    \A i \in LexerIds : \A k \in 1..Calls(i) :
        /\ k <= LexemeCount(Input(i)) => Tok(i, k).Type # EOF
        /\ k = LexemeCount(Input(i)) + 1 => Tok(i, k).Type = EOF

(* C4. The scanner is total: no call, and not New, indexes or slices the   *)
(* input out of range, also after EOF when position exceeds the length;    *)
(* and the byte under examination is in exactly one class, the one the     *)
(* returned token reports.                                                 *)
classesOf(ch) ==
    {c \in {"whitespace", "symbol", "letter", "digit", "end", "illegal"} :
        \/ c = "whitespace" /\ isWhitespace(ch)
        \/ c = "symbol" /\ symbolType(ch) # ""
        \/ c = "letter" /\ isLetter(ch)
        \/ c = "digit" /\ isDigit(ch)
        \/ c = "end" /\ ch = 0
        \/ c = "illegal" /\ ch \in OtherBytes}

C4_Total ==
    \A i \in LexerIds :
        /\ ~lexer[i].panic
        /\ Built(i) => Cardinality(classesOf(lexer[i].ch)) = 1
        /\ Built(i) => ~NextToken(lexer[i]).lex.panic
        /\ \A k \in 1..Calls(i) :
             LET b == StartByte(i, k) ty == Tok(i, k).Type IN
               /\ Cardinality(classesOf(b)) = 1
               /\ b \notin WhitespaceBytes
               /\ b \in SymbolBytes <=> ty \in {ASSIGN, PLUS, MINUS, BANG, SLASH, ASTERISK, LT,
                                                GT, SEMICOLON, COMMA, LPAREN, RPAREN, LBRACE,
                                                RBRACE}
               /\ b \in LetterBytes <=> ty \in {IDENT, FUNCTION, LET_KW}
               /\ b \in DigitBytes <=> ty = INT
               /\ b = 0 <=> ty = EOF
               /\ b \in OtherBytes <=> ty = ILLEGAL

\* two calls made after the end of the input was reported, the cursor past the end
C4_Witness ==
    /\ Len(Input(1)) = 2
    /\ Calls(1) >= 3
    /\ Tok(1, Calls(1)).Type = EOF
    /\ Tok(1, Calls(1) - 1).Type = EOF
    /\ lexer[1].position > Len(Input(1))
    /\ ~lexer[1].panic

(* C5. Whitespace invisibility: two inputs that differ only by whitespace   *)
(* inserted between lexemes return the same tokens, call for call, up to   *)
(* and including the first EOF.                                            *)
C5_WhitespaceInvisible ==
    (Built(1) /\ Built(2)) =>
        \A k \in 1..Calls(1) :
            (k <= Calls(2) /\ \A j \in 1..(k - 1) : Tok(1, j).Type # EOF)
                => Tok(1, k) = Tok(2, k)

\* both lexers reported EOF after a token; the variant has a carriage return inserted
C5_Witness ==
    /\ Built(1) /\ Built(2)
    /\ Input(1) = <<108, 49>>
    /\ Input(2) = <<108, 13, 49>>
    /\ Calls(1) = 3 /\ Calls(2) = 3
    /\ Toks(1) = Toks(2)
    /\ Tok(1, 3).Type = EOF

(* C6. Maximal munch: on a non-empty input of ASCII letters and            *)
(* underscores only, the first call returns one token whose Literal is the *)
(* whole input (IDENT or a keyword), and the second call returns EOF.      *)
C6_MaximalMunch ==
    \A i \in LexerIds :
        (Input(i) # <<>> /\ \A p \in 1..Len(Input(i)) : Input(i)[p] \in LetterBytes) =>
            /\ Calls(i) >= 1 =>
                 /\ Tok(i, 1).Literal = Input(i)
                 /\ Tok(i, 1).Type \in {IDENT, FUNCTION, LET_KW}
            /\ Calls(i) >= 2 => Tok(i, 2) = Token(EOF, <<>>)

\* "l_t" scanned as one identifier, then EOF
C6_Witness ==
    /\ Input(1) = <<108, 95, 116>>
    /\ Calls(1) = 2
    /\ Tok(1, 1) = Token(IDENT, <<108, 95, 116>>)
    /\ Tok(1, 2).Type = EOF

(* C7. Keyword precedence: a token produced from a letter/underscore run   *)
(* is LET iff its Literal is "let", FUNCTION iff it is "fn", and IDENT     *)
(* otherwise; "let" yields [LET "let"] and "lett" yields [IDENT "lett"].   *)
C7_KeywordPrecedence ==
    \A i \in LexerIds :
        /\ \A k \in 1..Calls(i) :
             StartByte(i, k) \in LetterBytes =>
               /\ Tok(i, k).Literal =
                    SubSeq(Input(i), Start(i, k) + 1,
                           RunEnd(Input(i), Start(i, k), LetterBytes))
               /\ Tok(i, k).Type = LET_KW <=> Tok(i, k).Literal = <<108, 101, 116>>
               /\ Tok(i, k).Type = FUNCTION <=> Tok(i, k).Literal = <<102, 110>>
               /\ Tok(i, k).Type \in {LET_KW, FUNCTION, IDENT}
        /\ (Input(i) = <<108, 101, 116>> /\ Calls(i) >= 1) =>
               Tok(i, 1) = Token(LET_KW, <<108, 101, 116>>)
        /\ (Input(i) = <<108, 101, 116, 116>> /\ Calls(i) >= 1) =>
               Tok(i, 1) = Token(IDENT, <<108, 101, 116, 116>>)

\* "lett" scanned as one IDENT
C7_Witness ==
    /\ Input(1) = <<108, 101, 116, 116>>
    /\ Calls(1) = 2
    /\ Tok(1, 1) = Token(IDENT, <<108, 101, 116, 116>>)
    /\ Tok(1, 2).Type = EOF

(* C8. Digit/letter boundary: when the character under examination is a   *)
(* digit the call returns INT with the maximal run of digits and leaves    *)
(* the cursor on the first non-digit; "1a" yields INT "1", IDENT "a", EOF. *)
C8_DigitRun ==
    \A i \in LexerIds :
        /\ \A k \in 1..Calls(i) :
             StartByte(i, k) \in DigitBytes =>
               LET e == RunEnd(Input(i), Start(i, k), DigitBytes) IN
                 /\ Tok(i, k) = Token(INT, SubSeq(Input(i), Start(i, k) + 1, e))
                 /\ hist[i][k].to = e
                 /\ k = Calls(i) =>
                      /\ lexer[i].position = e
                      /\ lexer[i].ch = ByteAt(Input(i), e)
                      /\ lexer[i].ch \notin DigitBytes
        /\ Input(i) = <<49, 97>> =>
             IsPrefix(SubSeq(Toks(i), 1, IF Calls(i) < 3 THEN Calls(i) ELSE 3),
                      <<Token(INT, <<49>>), Token(IDENT, <<97>>), Token(EOF, <<>>)>>)

\* "1a" scanned to the end
C8_Witness ==
    /\ Input(1) = <<49, 97>>
    /\ Calls(1) = 3
    /\ Toks(1) = <<Token(INT, <<49>>), Token(IDENT, <<97>>), Token(EOF, <<>>)>>

(* C9. Symbol coverage: an input that is one of the fourteen symbol        *)
(* characters yields one token of the matching Type whose Literal is that  *)
(* character, then EOF; and in no input is a symbol character ILLEGAL.     *)
symbolTable ==
    (61 :> ASSIGN) @@ (43 :> PLUS) @@ (45 :> MINUS) @@ (33 :> BANG) @@ (47 :> SLASH)
    @@ (42 :> ASTERISK) @@ (60 :> LT) @@ (62 :> GT) @@ (59 :> SEMICOLON) @@ (44 :> COMMA)
    @@ (40 :> LPAREN) @@ (41 :> RPAREN) @@ (123 :> LBRACE) @@ (125 :> RBRACE)

C9_SymbolCoverage ==
    \A i \in LexerIds :
        /\ \A b \in SymbolBytes :
             Input(i) = <<b>> =>
               /\ Calls(i) >= 1 => Tok(i, 1) = Token(symbolTable[b], <<b>>)
               /\ Calls(i) >= 2 => Tok(i, 2) = Token(EOF, <<>>)
        /\ \A k \in 1..Calls(i) :
             /\ StartByte(i, k) \in SymbolBytes =>
                  Tok(i, k) = Token(symbolTable[StartByte(i, k)], <<StartByte(i, k)>>)
             /\ Tok(i, k).Type = ILLEGAL => StartByte(i, k) \notin SymbolBytes

\* "/" alone scanned to the end
C9_Witness ==
    /\ Input(1) = <<47>>
    /\ Calls(1) = 2
    /\ Toks(1) = <<Token(SLASH, <<47>>), Token(EOF, <<>>)>>

(* C10. An unclassified byte yields one ILLEGAL token and moves the cursor *)
(* by exactly one character, and the calls that follow return the tokens   *)
(* of the rest of the input as if scanning had started there; "@" yields   *)
(* ILLEGAL "@", EOF.                                                       *)
C10_IllegalContinues ==
    \A i \in LexerIds :
        /\ \A k \in 1..Calls(i) :
             StartByte(i, k) \in OtherBytes =>
               /\ Tok(i, k).Type = ILLEGAL
               /\ hist[i][k].to = Start(i, k) + 1
               /\ SubSeq(Toks(i), k + 1, Calls(i)) =
                    tokensFrom(New(SubSeq(Input(i), Start(i, k) + 2, Len(Input(i)))),
                               Calls(i) - k)
        /\ Input(i) = <<64>> =>
             /\ Calls(i) >= 1 => Tok(i, 1) = Token(ILLEGAL, <<64>>)
             /\ Calls(i) >= 2 => Tok(i, 2) = Token(EOF, <<>>)

\* an illegal byte in front of a keyword: "@let" is not in the inputs, "@l1" is
C10_Witness ==
    /\ Input(1) = <<64, 108, 49>>
    /\ Calls(1) = 4
    /\ Toks(1) = <<Token(ILLEGAL, <<64>>), Token(IDENT, <<108>>), Token(INT, <<49>>),
                   Token(EOF, <<>>)>>

(* C11. The two end-to-end examples: "let five = 5;" yields LET "let",     *)
(* IDENT "five", ASSIGN "=", INT "5", SEMICOLON ";", EOF ""; and            *)
(* "fn(x, y) { x + y; }" yields FUNCTION "fn", LPAREN, IDENT "x", COMMA,    *)
(* IDENT "y", RPAREN, LBRACE, IDENT "x", PLUS, IDENT "y", SEMICOLON,        *)
(* RBRACE, EOF "", in that order from successive calls.                     *)
LetFive == <<108, 101, 116, 32, 102, 105, 118, 101, 32, 61, 32, 53, 59>>
LetFiveTokens ==
    << Token(LET_KW, <<108, 101, 116>>), Token(IDENT, <<102, 105, 118, 101>>),
       Token(ASSIGN, <<61>>), Token(INT, <<53>>), Token(SEMICOLON, <<59>>),
       Token(EOF, <<>>) >>
FnXY == <<102, 110, 40, 120, 44, 32, 121, 41, 32, 123, 32, 120, 32, 43, 32, 121, 59, 32, 125>>
FnXYTokens ==
    << Token(FUNCTION, <<102, 110>>), Token(LPAREN, <<40>>), Token(IDENT, <<120>>),
       Token(COMMA, <<44>>), Token(IDENT, <<121>>), Token(RPAREN, <<41>>),
       Token(LBRACE, <<123>>), Token(IDENT, <<120>>), Token(PLUS, <<43>>),
       Token(IDENT, <<121>>), Token(SEMICOLON, <<59>>), Token(RBRACE, <<125>>),
       Token(EOF, <<>>) >>

\* the tokens returned so far are the first ones of the expected sequence
YieldsInOrder(i, expected) ==
    \A k \in 1..Calls(i) : k <= Len(expected) => Tok(i, k) = expected[k]

C11_EndToEnd ==
    \A i \in LexerIds :
        /\ Input(i) = LetFive => YieldsInOrder(i, LetFiveTokens)
        /\ Input(i) = FnXY => YieldsInOrder(i, FnXYTokens)

\* the function example scanned to its EOF
C11_Witness ==
    /\ Input(1) = FnXY
    /\ Calls(1) = Len(FnXYTokens)
    /\ Toks(1) = FnXYTokens

(* C12. Empty input yields exactly EOF "": on a Lexer built from the empty *)
(* string the first call returns EOF with empty Literal, and so does every *)
(* later call.                                                             *)
C12_EmptyInput ==
    \A i \in LexerIds :
        (Built(i) /\ arg[i] = <<>>) =>
            /\ NextToken(lexer[i]).tok = Token(EOF, <<>>)
            /\ \A k \in 1..Calls(i) : Tok(i, k) = Token(EOF, <<>>)

\* three calls on the empty input
C12_Witness ==
    /\ Built(1)
    /\ arg[1] = <<>>
    /\ Calls(1) = 3
    /\ \A k \in 1..3 : Tok(1, k) = Token(EOF, <<>>)

(* C13. Independent lexers do not interfere: with the calls of two lexers  *)
(* interleaved in any order, each returns the tokens, and holds the state, *)
(* it has when run alone; the keyword table and the inputs never change.   *)
C13_Independent ==
    /\ kwTable = keywords
    /\ \A i \in LexerIds :
         Built(i) =>
           /\ Input(i) = arg[i]
           /\ Toks(i) = tokensFrom(New(arg[i]), Calls(i))
           /\ lexer[i] = lexerAfter(New(arg[i]), Calls(i))

\* both lexers part of the way through different inputs
C13_Witness ==
    /\ Built(1) /\ Built(2)
    /\ arg[1] = <<108, 49>>
    /\ arg[2] = <<49, 108>>
    /\ Toks(1) = <<Token(IDENT, <<108>>), Token(INT, <<49>>)>>
    /\ Toks(2) = <<Token(INT, <<49>>)>>

(* C14. When ch is the end-of-input sentinel, NextToken returns EOF with   *)
(* empty Literal and performs no character advance: position and           *)
(* readPosition are the same after the call as before it.                  *)
C14_NoAdvanceAtEOF ==
    [][\A i \in LexerIds :
          (Built(i) /\ lexer[i].ch = 0 /\ hist'[i] # hist[i]) =>
              /\ hist'[i][Len(hist'[i])].tok = Token(EOF, <<>>)
              /\ lexer'[i].position = lexer[i].position
              /\ lexer'[i].readPosition = lexer[i].readPosition]_vars

(* C15. Cursor invariant: after New returns and after any sequence of      *)
(* NextToken calls, also calls after EOF, readPosition = position + 1; it  *)
(* fails only inside New before the first readChar, where both are 0.      *)
C15_CursorInvariant ==
    \A i \in LexerIds :
        /\ Built(i) => lexer[i].readPosition = lexer[i].position + 1
        /\ pc[i] = "new" => lexer[i].position = 0 /\ lexer[i].readPosition = 0

\* calls made after EOF have moved the cursor past the end of a non-empty input
C15_Witness ==
    /\ Built(1)
    /\ Len(Input(1)) = 2
    /\ Calls(1) >= 4
    /\ lexer[1].position > Len(Input(1)) + 1
    /\ lexer[1].readPosition = lexer[1].position + 1

(* C16. Digits are never part of an identifier: the Literal of an IDENT or *)
(* keyword token holds only ASCII letters and underscores, a letter run    *)
(* followed by digits is returned as two tokens ("a1" yields IDENT "a",    *)
(* INT "1", EOF), and an identifier may start with and contain '_'.        *)
C16_NoDigitsInIdentifier ==
    \A i \in LexerIds :
        /\ \A k \in 1..Calls(i) :
             Tok(i, k).Type \in {IDENT, FUNCTION, LET_KW} =>
               /\ Tok(i, k).Literal # <<>>
               /\ \A p \in 1..Len(Tok(i, k).Literal) : Tok(i, k).Literal[p] \in LetterBytes
               /\ (ByteAt(Input(i), hist[i][k].to) \in DigitBytes /\ k < Calls(i)) =>
                      /\ Tok(i, k + 1).Type = INT
                      /\ Tok(i, k + 1).Literal[1] = ByteAt(Input(i), hist[i][k].to)
        /\ Input(i) = <<97, 49>> =>
             YieldsInOrder(i, <<Token(IDENT, <<97>>), Token(INT, <<49>>), Token(EOF, <<>>)>>)
        /\ Input(i) = <<95, 108, 95>> =>
             YieldsInOrder(i, <<Token(IDENT, <<95, 108, 95>>), Token(EOF, <<>>)>>)

\* "a1" scanned to the end
C16_Witness ==
    /\ Input(1) = <<97, 49>>
    /\ Calls(1) = 3
    /\ Toks(1) = <<Token(IDENT, <<97>>), Token(INT, <<49>>), Token(EOF, <<>>)>>

(* C17. No returned token has a Literal that contains a space, tab,        *)
(* newline or carriage return: whitespace is skipped before classification *)
(* and is never returned as a token, in particular never as ILLEGAL.       *)
C17_NoWhitespaceInLiteral ==
    \A i \in LexerIds : \A k \in 1..Calls(i) :
        /\ \A p \in 1..Len(Tok(i, k).Literal) : Tok(i, k).Literal[p] \notin WhitespaceBytes
        /\ Tok(i, k).Type = ILLEGAL =>
             ByteAt(Input(i), hist[i][k].to - 1) \notin WhitespaceBytes

\* whitespace on both sides of an identifier, skipped
C17_Witness ==
    /\ Input(1) = <<10, 108, 32>>
    /\ Calls(1) = 2
    /\ Toks(1) = <<Token(IDENT, <<108>>), Token(EOF, <<>>)>>

(* C18. Construction primes the scanner and cannot fail: after New(input)  *)
(* returns, position = 0, readPosition = 1, ch is input[0] for a non-empty *)
(* input and the sentinel 0 for the empty one, and the stored input is the *)
(* argument.                                                               *)
C18_NewPrimes ==
    \A i \in LexerIds :
        (Built(i) /\ Calls(i) = 0) =>
            /\ ~lexer[i].panic
            /\ lexer[i].position = 0
            /\ lexer[i].readPosition = 1
            /\ lexer[i].ch = (IF arg[i] = <<>> THEN 0 ELSE arg[i][1])
            /\ lexer[i].input = arg[i]

\* New has returned on a non-empty input and no call was made yet
C18_Witness ==
    /\ Built(1)
    /\ Calls(1) = 0
    /\ arg[1] = <<255, 108>>
    /\ lexer[1].ch = 255

(* C19. Cursor/character consistency: between calls, ch = input[position] *)
(* when position < len(input) and ch = 0 when position >= len(input);      *)
(* position never decreases, and input is never modified.                  *)
C19_CursorCharConsistent ==
    \A i \in LexerIds :
        Built(i) =>
            /\ lexer[i].input = arg[i]
            /\ lexer[i].position >= 0
            /\ lexer[i].ch = ByteAt(arg[i], lexer[i].position)
            /\ \A k \in 1..Calls(i) :
                 /\ hist[i][k].from <= hist[i][k].to
                 /\ k > 1 => hist[i][k - 1].to = hist[i][k].from
                 /\ k = Calls(i) => hist[i][k].to = lexer[i].position

\* between two calls in the middle of an input, the cursor on its second byte
C19_Witness ==
    /\ Built(1)
    /\ arg[1] = <<108, 61, 49>>
    /\ Calls(1) = 1
    /\ lexer[1].position = 1
    /\ lexer[1].ch = 61

(* C20. Lossless coverage: for an input of bytes 0x01..0x7F only, the      *)
(* Literals of the tokens returned before the first EOF, concatenated in   *)
(* return order, are the input with its whitespace removed; the tokens'    *)
(* source spans are disjoint and strictly increasing.                      *)
RECURSIVE withoutWhitespace(_)
withoutWhitespace(s) ==
    IF s = <<>> THEN <<>>
    ELSE (IF Head(s) \in WhitespaceBytes THEN <<>> ELSE <<Head(s)>>)
         \o withoutWhitespace(Tail(s))

RECURSIVE literalsUpTo(_, _)
literalsUpTo(i, k) ==
    IF k = 0 THEN <<>> ELSE literalsUpTo(i, k - 1) \o Tok(i, k).Literal

IsAscii(s) == \A p \in 1..Len(s) : s[p] \in 1..127

C20_Lossless ==
    \A i \in LexerIds :
        (Built(i) /\ IsAscii(Input(i))) =>
            \A k \in 1..Calls(i) :
                IF Tok(i, k).Type = EOF
                THEN (\A j \in 1..(k - 1) : Tok(i, j).Type # EOF) =>
                         literalsUpTo(i, k - 1) = withoutWhitespace(Input(i))
                ELSE /\ Start(i, k) < hist[i][k].to
                     /\ hist[i][k].to <= Len(Input(i))
                     /\ literalsUpTo(i, k) =
                          withoutWhitespace(SubSeq(Input(i), 1, hist[i][k].to))
                     /\ k > 1 => hist[i][k - 1].to <= Start(i, k)

\* "l 1" scanned to its EOF
C20_Witness ==
    /\ Built(1)
    /\ Input(1) = <<108, 32, 49>>
    /\ Calls(1) = 3
    /\ Tok(1, 3).Type = EOF
    /\ literalsUpTo(1, 2) = <<108, 49>>

====
